---- MODULE Spec2Model ----
(***************************************************************************)
(* Model of flake-info/src/data/source.rs: the Source data model, the      *)
(* query encoding of FlakeRefAttrs, locator construction, the (de)serial-  *)
(* ization the serde attributes define, read_sources_file and the channel  *)
(* resolver Source::nixpkgs.                                               *)
(*                                                                         *)
(* A Rust String is a sequence of one-character strings, Option<T> is the  *)
(* empty sequence (None) or a one-element sequence (Some), a u64 is a      *)
(* natural number.                                                         *)
(***************************************************************************)
EXTENDS Integers, Sequences, FiniteSets, TLC

VARIABLES
    source,      \* SpecLocator/SpecSerde: the Source value operated on
    result,      \* SpecLocator: the last call and what it returned
    doc,         \* SpecSerde: the stored form of source (a tagged object)
    parsed,      \* SpecSerde: what deserializing doc returned
    prev,        \* SpecSerde: what deserializing doc returned before a key was respelled
    path,        \* SpecFile: the path handed to read_sources_file
    file,        \* SpecFile: the file system's answer for path
    readResult,  \* SpecFile: what read_sources_file returned
    upstream,    \* SpecNet: per branch of nixos/nixpkgs, how often it has advanced
    calls,       \* SpecNet: per call of nixpkgs(), its position, locals and outcome
    requests     \* SpecNet: per call, the requests it handed to the transport

vars == <<source, result, doc, parsed, prev, path, file, readResult,
          upstream, calls, requests>>

locatorVars == <<source, result>>
serdeVars == <<doc, parsed, prev>>
fileVars == <<path, file, readResult>>
netVars == <<upstream, calls, requests>>

\* The largest revCount / lastModified value drawn.
MaxNum == 10

None == <<>>
Some(v) == <<v>>

---------------------------------------------------------------------------
(* Strings *)

Digits == <<"0", "1", "2", "3", "4", "5", "6", "7", "8", "9">>

\* format!("{}", n) of a u64: its decimal digits.
RECURSIVE Display(_)
Display(n) ==
    IF n < 10 THEN <<Digits[n + 1]>>
    ELSE Display(n \div 10) \o <<Digits[(n % 10) + 1]>>

\* str::contains(char)
contains(s, c) == \E i \in 1..Len(s) : s[i] = c

\* [String]::join(sep)
RECURSIVE join(_, _)
join(params, sep) ==
    IF params = <<>> THEN <<>>
    ELSE IF Len(params) = 1 THEN params[1]
    ELSE params[1] \o sep \o join(Tail(params), sep)

---------------------------------------------------------------------------
(* FlakeRefAttrs *)

\* Option::map(|v| format!("{key}{}", v)) collected: the push of one field.
push(key, opt) == IF opt = None THEN <<>> ELSE <<key \o opt[1]>>
pushNum(key, opt) == IF opt = None THEN <<>> ELSE <<key \o Display(opt[1])>>

\* query_string without the is_empty test of its last step.
query_string_always_prefixed(attrs) ==
    <<"?">> \o join(push(<<"r", "e", "f", "=">>, attrs.ref)
                    \o push(<<"r", "e", "v", "=">>, attrs.rev)
                    \o push(<<"d", "i", "r", "=">>, attrs.dir)
                    \o push(<<"n", "a", "r", "H", "a", "s", "h", "=">>, attrs.nar_hash)
                    \o pushNum(<<"r", "e", "v", "C", "o", "u", "n", "t", "=">>, attrs.rev_count)
                    \o pushNum(<<"l", "a", "s", "t", "M", "o", "d", "i", "f", "i", "e", "d", "=">>,
                               attrs.last_modified),
                    <<"&">>)

query_string(attrs) ==
    LET params ==
            push(<<"r", "e", "f", "=">>, attrs.ref)
            \o push(<<"r", "e", "v", "=">>, attrs.rev)
            \o push(<<"d", "i", "r", "=">>, attrs.dir)
            \o push(<<"n", "a", "r", "H", "a", "s", "h", "=">>, attrs.nar_hash)
            \o pushNum(<<"r", "e", "v", "C", "o", "u", "n", "t", "=">>, attrs.rev_count)
            \o pushNum(<<"l", "a", "s", "t", "M", "o", "d", "i", "f", "i", "e", "d", "=">>,
                       attrs.last_modified)
    IN  IF params = <<>> THEN <<>>
        ELSE <<"?">> \o join(params, <<"&">>)

\* append_to without the test for a '?' already in base.
append_to_no_contains_test(attrs, base) ==
    LET query == query_string(attrs)
    IN  IF query = <<>> THEN base ELSE base \o query

append_to(attrs, base) ==
    LET query == query_string(attrs)
    IN  IF query = <<>> THEN base
        ELSE IF contains(base, "?") THEN base \o <<"&">> \o Tail(query)
        ELSE base \o query

---------------------------------------------------------------------------
(* Source *)

HasAttrs(s) == s.type \in {"Github", "Gitlab", "SourceHut", "Git"}

\* to_flake_ref with the Gitlab arm carrying the Github arm's prefix.
to_flake_ref_copied_prefix(s) ==
    IF s.type = "Nixpkgs"
    THEN <<"h", "t", "t", "p", "s", ":", "/", "/", "a", "p", "i", ".", "g", "i", "t", "h", "u", "b",
           ".", "c", "o", "m", "/", "r", "e", "p", "o", "s", "/", "N", "i", "x", "O", "S", "/",
           "n", "i", "x", "p", "k", "g", "s", "/", "t", "a", "r", "b", "a", "l", "l", "/">>
         \o s.git_ref
    ELSE IF s.type = "Git" THEN append_to(s.attrs, s.url)
    ELSE IF s.type = "SourceHut"
    THEN append_to(s.attrs,
                   <<"s", "o", "u", "r", "c", "e", "h", "u", "t", ":">> \o s.owner \o <<"/">> \o s.repo)
    ELSE append_to(s.attrs, <<"g", "i", "t", "h", "u", "b", ":">> \o s.owner \o <<"/">> \o s.repo)

to_flake_ref(s) ==
    CASE s.type = "Github" ->
            append_to(s.attrs, <<"g", "i", "t", "h", "u", "b", ":">> \o s.owner \o <<"/">> \o s.repo)
      [] s.type = "Gitlab" ->
            append_to(s.attrs, <<"g", "i", "t", "l", "a", "b", ":">> \o s.owner \o <<"/">> \o s.repo)
      [] s.type = "SourceHut" ->
            append_to(s.attrs,
                      <<"s", "o", "u", "r", "c", "e", "h", "u", "t", ":">> \o s.owner \o <<"/">> \o s.repo)
      [] s.type = "Git" -> append_to(s.attrs, s.url)
      [] s.type = "Nixpkgs" ->
            <<"h", "t", "t", "p", "s", ":", "/", "/", "a", "p", "i", ".", "g", "i", "t", "h", "u", "b",
              ".", "c", "o", "m", "/", "r", "e", "p", "o", "s", "/", "N", "i", "x", "O", "S", "/",
              "n", "i", "x", "p", "k", "g", "s", "/", "t", "a", "r", "b", "a", "l", "l", "/">>
            \o s.git_ref

---------------------------------------------------------------------------
(* Serialize / Deserialize, as the serde attributes of lines 13-26 and 78-106     *)
(* define them. The stored form is modelled as serde's data model: a tagged       *)
(* object is the sequence of its key/value entries, a value is a string, a number *)
(* or null. The two formats differ in how a None is written: JSON writes null,    *)
(* TOML writes no entry.                                                           *)

StrV(s) == [t |-> "str", s |-> s, n |-> 0]
NumV(n) == [t |-> "num", s |-> <<>>, n |-> n]
NullV == [t |-> "null", s |-> <<>>, n |-> 0]
Entry(k, v) == [k |-> k, v |-> v]

\* rename_all = "lowercase" on the variant names.
VariantTag(type) ==
    [Github |-> <<"g", "i", "t", "h", "u", "b">>,
     Gitlab |-> <<"g", "i", "t", "l", "a", "b">>,
     SourceHut |-> <<"s", "o", "u", "r", "c", "e", "h", "u", "t">>,
     Git |-> <<"g", "i", "t">>,
     Nixpkgs |-> <<"n", "i", "x", "p", "k", "g", "s">>][type]

Variants == {"Github", "Gitlab", "SourceHut", "Git", "Nixpkgs"}

\* The variant a tag names; tags are matched exactly (case included).
VariantOfTag(tag) ==
    IF \E v \in Variants : VariantTag(v) = tag
    THEN CHOOSE v \in Variants : VariantTag(v) = tag
    ELSE "unknown"

\* The keys each attribute is read from: its (renamed) name and its aliases.
RefKeys_no_alias == {"ref"}
RefKeys == {"ref", "git_ref"}
RevKeys == {"rev", "hash"}
DirKeys == {"dir"}
NarHashKeys == {"narHash"}
RevCountKeys == {"revCount"}
LastModifiedKeys == {"lastModified"}

\* One Option<String> / Option<u64> field written under key.
SerOptStr(key, opt, fmt) ==
    IF opt # None THEN <<Entry(key, StrV(opt[1]))>>
    ELSE IF fmt = "json" THEN <<Entry(key, NullV)>>
    ELSE <<>>

SerOptNum(key, opt, fmt) ==
    IF opt # None THEN <<Entry(key, NumV(opt[1]))>>
    ELSE IF fmt = "json" THEN <<Entry(key, NullV)>>
    ELSE <<>>

\* FlakeRefAttrs written under the field names of the struct instead of the
\* renamed ones.
AttrFields_field_names(attrs, fmt) ==
    SerOptStr("ref", attrs.ref, fmt)
    \o SerOptStr("rev", attrs.rev, fmt)
    \o SerOptStr("dir", attrs.dir, fmt)
    \o SerOptStr("nar_hash", attrs.nar_hash, fmt)
    \o SerOptNum("rev_count", attrs.rev_count, fmt)
    \o SerOptNum("last_modified", attrs.last_modified, fmt)

\* #[derive(Serialize)] of FlakeRefAttrs, flattened into the owning variant.
AttrFields(attrs, fmt) ==
    SerOptStr("ref", attrs.ref, fmt)
    \o SerOptStr("rev", attrs.rev, fmt)
    \o SerOptStr("dir", attrs.dir, fmt)
    \o SerOptStr("narHash", attrs.nar_hash, fmt)
    \o SerOptNum("revCount", attrs.rev_count, fmt)
    \o SerOptNum("lastModified", attrs.last_modified, fmt)

\* #[derive(Serialize)] of Source: the tag, then the variant's fields in order.
Serialize(s, fmt) ==
    <<Entry("type", StrV(VariantTag(s.type)))>>
    \o CASE s.type = "Github" ->
              <<Entry("owner", StrV(s.owner)), Entry("repo", StrV(s.repo))>>
              \o SerOptStr("description", s.description, fmt)
              \o AttrFields(s.attrs, fmt)
         [] s.type \in {"Gitlab", "SourceHut"} ->
              <<Entry("owner", StrV(s.owner)), Entry("repo", StrV(s.repo))>>
              \o AttrFields(s.attrs, fmt)
         [] s.type = "Git" -> <<Entry("url", StrV(s.url))>> \o AttrFields(s.attrs, fmt)
         [] s.type = "Nixpkgs" ->
              <<Entry("channel", StrV(s.channel)), Entry("git_ref", StrV(s.git_ref))>>

\* The entries of obj whose key is one of keys.
Lookup(obj, keys) == SelectSeq(obj, LAMBDA e : e.k \in keys)

\* A required String field: exactly one entry, holding a string.
ReqString(obj, keys) ==
    LET es == Lookup(obj, keys)
    IN  IF Len(es) = 1 /\ es[1].v.t = "str" THEN [ok |-> TRUE, v |-> es[1].v.s]
        ELSE [ok |-> FALSE, v |-> <<>>]

\* An Option<String> field: no entry or null is None, two entries are a
\* duplicate field, a number is an invalid type.
OptString(obj, keys) ==
    LET es == Lookup(obj, keys)
    IN  IF Len(es) = 0 THEN [ok |-> TRUE, v |-> None]
        ELSE IF Len(es) > 1 THEN [ok |-> FALSE, v |-> None]
        ELSE IF es[1].v.t = "null" THEN [ok |-> TRUE, v |-> None]
        ELSE IF es[1].v.t = "str" THEN [ok |-> TRUE, v |-> Some(es[1].v.s)]
        ELSE [ok |-> FALSE, v |-> None]

OptU64(obj, keys) ==
    LET es == Lookup(obj, keys)
    IN  IF Len(es) = 0 THEN [ok |-> TRUE, v |-> None]
        ELSE IF Len(es) > 1 THEN [ok |-> FALSE, v |-> None]
        ELSE IF es[1].v.t = "null" THEN [ok |-> TRUE, v |-> None]
        ELSE IF es[1].v.t = "num" THEN [ok |-> TRUE, v |-> Some(es[1].v.n)]
        ELSE [ok |-> FALSE, v |-> None]

Ok(v) == [state |-> "ok", value |-> v]
Err == [state |-> "err"]

\* #[derive(Deserialize)] of FlakeRefAttrs from the entries the owning variant
\* did not take; entries under other keys are ignored.
DeAttrs(obj) ==
    LET ref == OptString(obj, RefKeys)
        rev == OptString(obj, RevKeys)
        dir == OptString(obj, DirKeys)
        nar == OptString(obj, NarHashKeys)
        cnt == OptU64(obj, RevCountKeys)
        mod == OptU64(obj, LastModifiedKeys)
    IN  IF ref.ok /\ rev.ok /\ dir.ok /\ nar.ok /\ cnt.ok /\ mod.ok
        THEN Ok([ref |-> ref.v, rev |-> rev.v, dir |-> dir.v, nar_hash |-> nar.v,
                 rev_count |-> cnt.v, last_modified |-> mod.v])
        ELSE Err

\* #[derive(Deserialize)] of Source, tag = "type": the tag picks the variant, the
\* variant reads its own fields and hands the rest to the flattened attrs.
Deserialize(obj) ==
    LET tag == ReqString(obj, {"type"})
        variant == IF tag.ok THEN VariantOfTag(tag.v) ELSE "unknown"
        owner == ReqString(obj, {"owner"})
        repo == ReqString(obj, {"repo"})
        description == OptString(obj, {"description"})
        url == ReqString(obj, {"url"})
        channel == ReqString(obj, {"channel"})
        git_ref == ReqString(obj, {"git_ref"})
        attrs == DeAttrs(obj)
    IN  CASE variant = "Github" ->
                IF owner.ok /\ repo.ok /\ description.ok /\ attrs.state = "ok"
                THEN Ok([type |-> "Github", owner |-> owner.v, repo |-> repo.v,
                         description |-> description.v, attrs |-> attrs.value])
                ELSE Err
          [] variant \in {"Gitlab", "SourceHut"} ->
                IF owner.ok /\ repo.ok /\ attrs.state = "ok"
                THEN Ok([type |-> variant, owner |-> owner.v, repo |-> repo.v,
                         attrs |-> attrs.value])
                ELSE Err
          [] variant = "Git" ->
                IF url.ok /\ attrs.state = "ok"
                THEN Ok([type |-> "Git", url |-> url.v, attrs |-> attrs.value])
                ELSE Err
          [] variant = "Nixpkgs" ->
                IF channel.ok /\ git_ref.ok
                THEN Ok([type |-> "Nixpkgs", channel |-> channel.v, git_ref |-> git_ref.v])
                ELSE Err
          [] OTHER -> Err

---------------------------------------------------------------------------
(* read_sources_file *)

\* The last position of c in s, 0 when there is none.
LastIndex(s, c) ==
    IF contains(s, c) THEN CHOOSE i \in 1..Len(s) : s[i] = c /\ \A j \in (i + 1)..Len(s) : s[j] # c
    ELSE 0

\* Path::extension: what follows the last '.' of the file name; None when the
\* file name has no '.' or only a leading one.
extension(p) ==
    LET name == SubSeq(p, LastIndex(p, "/") + 1, Len(p))
        dot == LastIndex(name, ".")
    IN  IF dot <= 1 THEN None ELSE Some(SubSeq(name, dot + 1, Len(name)))

\* The test of line 142 as a test of the path's last four characters.
is_toml_suffix(p) ==
    Len(p) >= 4 /\ SubSeq(p, Len(p) - 3, Len(p)) = <<"t", "o", "m", "l">>

\* path.extension() == Some(OsStr::new("toml"))
is_toml(p) == extension(p) = Some(<<"t", "o", "m", "l">>)

\* Vec<Source> from the elements of an array: the first element that fails
\* fails the whole.
DeserializeAll(items) ==
    IF \A i \in 1..Len(items) : Deserialize(items[i].obj).state = "ok"
    THEN Ok([i \in 1..Len(items) |-> Deserialize(items[i].obj).value])
    ELSE Err

\* toml::from_str::<TomlDocument>: the text must be TOML and its root table must
\* hold the array `sources`.
from_toml(content) ==
    IF content.syntax = "toml" /\ content.shape = "wrapper"
    THEN DeserializeAll(content.items)
    ELSE Err

\* serde_json::from_str::<Vec<Source>>: the text must be JSON and its root an array.
from_json(content) ==
    IF content.syntax = "json" /\ content.shape = "array"
    THEN DeserializeAll(content.items)
    ELSE Err

read_sources_file(p, f) ==
    IF ~f.exists THEN Err                       \* File::open(path)?
    ELSE IF ~f.utf8 THEN Err                    \* file.read_to_string(&mut buf)?
    ELSE IF is_toml(p) THEN from_toml(f.content)
    ELSE from_json(f.content)

---------------------------------------------------------------------------
(* The input values *)

OptOf(S) == {None} \cup {Some(v) : v \in S}

Nums == {0, 9, MaxNum}

AttrSets ==
    [ref : OptOf({<<"m">>, <<"?", "x">>}),
     rev : OptOf({<<"c", "1">>}),
     dir : OptOf({<<"d", "&">>}),
     nar_hash : OptOf({<<"h">>}),
     rev_count : OptOf(Nums),
     last_modified : OptOf({0, 7})]

NoAttrs ==
    [ref |-> None, rev |-> None, dir |-> None, nar_hash |-> None,
     rev_count |-> None, last_modified |-> None]

Owners == {<<"o">>, <<>>, <<"a", "/", "?">>}
Repos == {<<"r">>, <<"&">>}
Urls == {<<"u">>, <<"u", "?", "x", "=", "1">>, <<"u", "?">>, <<"u", "&">>}
Descriptions == OptOf({<<"t">>})
Channels == {<<"u", "n", "s", "t", "a", "b", "l", "e">>, <<"2", "5", ".", "0", "5">>}
Shas == {<<"a", "1">>, <<"b", "2">>}

Sources ==
    [type : {"Github"}, owner : Owners, repo : Repos, description : Descriptions,
     attrs : AttrSets]
    \cup [type : {"Gitlab", "SourceHut"}, owner : Owners, repo : Repos, attrs : AttrSets]
    \cup [type : {"Git"}, url : Urls, attrs : AttrSets]
    \cup [type : {"Nixpkgs"}, channel : Channels, git_ref : Shas]

Bases == Urls \cup {<<>>, <<"g", ":", "o", "/", "r">>}

NoResult == [op |-> "none"]
NoDoc == [fmt |-> "none", obj |-> <<>>]
NoParse == [state |-> "none"]

SerdeIdle == doc = NoDoc /\ parsed = NoParse /\ prev = NoParse
NoContent == [syntax |-> "garbage", shape |-> "other", items |-> <<>>]
NoFile == [exists |-> FALSE, utf8 |-> FALSE, content |-> NoContent]
FileIdle == path = <<>> /\ file = NoFile /\ readResult = NoParse
NetIdle == upstream = <<>> /\ calls = <<>> /\ requests = <<>>

---------------------------------------------------------------------------
(* SpecLocator: the locator functions applied to every input value *)

InitLocator ==
    /\ source \in Sources
    /\ result = NoResult
    /\ SerdeIdle /\ FileIdle /\ NetIdle

CallQueryString ==
    /\ HasAttrs(source)
    /\ result' = [op |-> "query_string", attrs |-> source.attrs,
                  value |-> query_string(source.attrs)]
    /\ UNCHANGED <<source, serdeVars, fileVars, netVars>>

CallAppendTo(base) ==
    /\ HasAttrs(source)
    /\ result' = [op |-> "append_to", attrs |-> source.attrs, base |-> base,
                  value |-> append_to(source.attrs, base)]
    /\ UNCHANGED <<source, serdeVars, fileVars, netVars>>

CallToFlakeRef ==
    /\ result' = [op |-> "to_flake_ref", value |-> to_flake_ref(source)]
    /\ UNCHANGED <<source, serdeVars, fileVars, netVars>>

NextLocator ==
    \/ CallQueryString
    \/ \E base \in Bases : CallAppendTo(base)
    \/ CallToFlakeRef

SpecLocator == InitLocator /\ [][NextLocator]_vars

---------------------------------------------------------------------------
(* SpecSerde: a value is stored, the stored form is read back, and a key of the  *)
(* stored form is respelled with its alias and read again                         *)

InitSerde ==
    /\ source \in Sources
    /\ result = NoResult
    /\ SerdeIdle /\ FileIdle /\ NetIdle

Store(fmt) ==
    /\ doc = NoDoc
    /\ doc' = [fmt |-> fmt, obj |-> Serialize(source, fmt)]
    /\ UNCHANGED <<source, result, parsed, prev, fileVars, netVars>>

Load ==
    /\ doc # NoDoc
    /\ parsed = NoParse
    /\ parsed' = Deserialize(doc.obj)
    /\ UNCHANGED <<source, result, doc, prev, fileVars, netVars>>

\* obj with every entry under key from written under key to instead.
Rekey(obj, from, to) ==
    [i \in 1..Len(obj) |-> IF obj[i].k = from THEN Entry(to, obj[i].v) ELSE obj[i]]

\* The author of the stored form spells a field with its alias.
Respell(from, to) ==
    /\ HasAttrs(source)
    /\ parsed # NoParse
    /\ Lookup(doc.obj, {from}) # <<>>
    /\ doc' = [doc EXCEPT !.obj = Rekey(doc.obj, from, to)]
    /\ prev' = parsed
    /\ parsed' = NoParse
    /\ UNCHANGED <<source, result, fileVars, netVars>>

NextSerde ==
    \/ \E fmt \in {"json", "toml"} : Store(fmt)
    \/ Load
    \/ Respell("ref", "git_ref")
    \/ Respell("rev", "hash")

SpecSerde == InitSerde /\ [][NextSerde]_vars

\* C7: a value stored in either format and read back is the value stored, for
\* every variant and every combination of present and absent attributes.
C7_RoundTrip ==
    (parsed # NoParse /\ prev = NoParse) => parsed = Ok(source)

\* A SourceHut value with some attributes present and some absent was stored and
\* read back.
C7_Witness ==
    /\ parsed # NoParse
    /\ prev = NoParse
    /\ source.type = "SourceHut"
    /\ source.attrs.nar_hash # None
    /\ source.attrs.rev_count = Some(MaxNum)
    /\ source.attrs.ref = None
    /\ doc.fmt = "json"

\* C8: the stored form with the branch field spelled git_ref, or the revision
\* field spelled hash, parses to the same Source as the one it was respelled from.
C8_Alias ==
    (parsed # NoParse /\ prev # NoParse) => (parsed = prev /\ parsed.state = "ok")

\* A Git value whose ref and rev are both present was read with both fields
\* spelled by their aliases.
C8_Witness ==
    /\ parsed # NoParse
    /\ prev # NoParse
    /\ source.type = "Git"
    /\ Lookup(doc.obj, {"git_ref"}) # <<>>
    /\ Lookup(doc.obj, {"hash"}) # <<>>
    /\ parsed.state = "ok"
    /\ parsed.value.attrs.ref # None
    /\ parsed.value.attrs.rev # None

---------------------------------------------------------------------------
(* SpecFile: read_sources_file on every drawn path and file *)

\* The longest list of sources a drawn file holds.
MaxItems == 2

Str_o == <<"o">>
Str_r == <<"r">>
Str_m == <<"m">>

\* What a sources file may hold as one element, with the Source its author meant
\* (Err for an element that is no Source).
FileItems ==
    {[obj |-> <<Entry("type", StrV(VariantTag("Github"))), Entry("owner", StrV(Str_o)),
                Entry("repo", StrV(Str_r)), Entry("git_ref", StrV(Str_m)),
                Entry("revCount", NumV(MaxNum))>>,
      expect |-> Ok([type |-> "Github", owner |-> Str_o, repo |-> Str_r, description |-> None,
                     attrs |-> [NoAttrs EXCEPT !.ref = Some(Str_m),
                                               !.rev_count = Some(MaxNum)]])],
     [obj |-> <<Entry("url", StrV(<<"u">>)), Entry("type", StrV(VariantTag("Git"))),
                Entry("hash", StrV(<<"c", "1">>))>>,
      expect |-> Ok([type |-> "Git", url |-> <<"u">>,
                     attrs |-> [NoAttrs EXCEPT !.rev = Some(<<"c", "1">>)]])],
     [obj |-> <<Entry("type", StrV(VariantTag("Nixpkgs"))), Entry("channel", StrV(<<"2", "5">>)),
                Entry("git_ref", StrV(<<"a", "1">>))>>,
      expect |-> Ok([type |-> "Nixpkgs", channel |-> <<"2", "5">>, git_ref |-> <<"a", "1">>])],
     \* a missing required field
     [obj |-> <<Entry("type", StrV(VariantTag("Gitlab"))), Entry("owner", StrV(Str_o))>>,
      expect |-> Err],
     \* a tag outside the closed set
     [obj |-> <<Entry("type", StrV(<<"h", "g">>)), Entry("owner", StrV(Str_o)),
                Entry("repo", StrV(Str_r))>>,
      expect |-> Err],
     \* a tag of the set in another letter case
     [obj |-> <<Entry("type", StrV(<<"G", "i", "t">>)), Entry("url", StrV(<<"u">>))>>,
      expect |-> Err],
     \* no tag
     [obj |-> <<Entry("owner", StrV(Str_o)), Entry("repo", StrV(Str_r))>>,
      expect |-> Err],
     \* a field of the wrong type
     [obj |-> <<Entry("type", StrV(VariantTag("SourceHut"))), Entry("owner", StrV(Str_o)),
                Entry("repo", StrV(Str_r)), Entry("revCount", StrV(<<"1">>))>>,
      expect |-> Err]}

ItemLists == UNION {[1..n -> FileItems] : n \in 0..MaxItems}

Contents ==
    [syntax : {"toml"}, shape : {"wrapper"}, items : ItemLists]
    \cup [syntax : {"json"}, shape : {"array", "wrapper"}, items : ItemLists]
    \cup {[syntax |-> "toml", shape |-> "other", items |-> <<>>], NoContent}

Files ==
    [exists : {TRUE}, utf8 : {TRUE}, content : Contents]
    \cup {NoFile, [exists |-> TRUE, utf8 |-> FALSE, content |-> NoContent]}

TomlPaths ==
    {<<"s", ".", "t", "o", "m", "l">>,
     <<"d", ".", "x", "/", "s", ".", "b", ".", "t", "o", "m", "l">>}

OtherPaths ==
    {<<"s", ".", "j", "s", "o", "n">>,
     <<"s">>,
     <<"s", ".", "T", "O", "M", "L">>,
     <<".", "t", "o", "m", "l">>,
     <<"d", "/", ".", "t", "o", "m", "l">>,
     <<"s", ".", "t", "o", "m", "l", "/", "l">>,
     <<"s", ".", "t", "o", "m", "l", ".", "b">>}

InitFile ==
    /\ path \in TomlPaths \cup OtherPaths
    /\ file \in Files
    /\ readResult = NoParse
    /\ source = NoResult /\ result = NoResult
    /\ SerdeIdle /\ NetIdle

ReadSourcesFile ==
    /\ readResult = NoParse
    /\ readResult' = read_sources_file(path, file)
    /\ UNCHANGED <<path, file, locatorVars, serdeVars, netVars>>

NextFile == ReadSourcesFile

SpecFile == InitFile /\ [][NextFile]_vars

Readable(f) == f.exists /\ f.utf8

AllMeant(items) == \A i \in 1..Len(items) : items[i].expect.state = "ok"

\* C4: the format is chosen by the extension alone: under the extension toml the
\* file must be a TOML document whose field `sources` holds the list, under any
\* other extension (none, another letter case) a bare JSON array; the list comes
\* back whole and in file order, and a file that is malformed or holds one
\* element that is no Source gives an error, never part of the list.
C4_ReadSourcesFile ==
    readResult # NoParse =>
        LET c == file.content
            wanted == IF path \in TomlPaths
                      THEN c.syntax = "toml" /\ c.shape = "wrapper"
                      ELSE c.syntax = "json" /\ c.shape = "array"
        IN  IF Readable(file) /\ wanted /\ AllMeant(c.items)
            THEN /\ readResult.state = "ok"
                 /\ Len(readResult.value) = Len(c.items)
                 /\ \A i \in 1..Len(c.items) : readResult.value[i] = c.items[i].expect.value
            ELSE readResult = Err

\* A file named *.TOML holding a JSON array of two different sources was read.
C4_Witness ==
    /\ readResult # NoParse
    /\ readResult.state = "ok"
    /\ path = <<"s", ".", "T", "O", "M", "L">>
    /\ Len(readResult.value) = MaxItems
    /\ readResult.value[1].type = "Nixpkgs"
    /\ readResult.value[MaxItems].type = "Github"

---------------------------------------------------------------------------
(* SpecNet: calls of Source::nixpkgs interleaved with each other, with the        *)
(* endpoint's answers and with advances of the upstream branch. A call is        *)
(* suspended at each of its two awaits: send() (line 174) and the read of the    *)
(* body, text() or json() (lines 180, 183).                                      *)

\* How many calls of nixpkgs() are made, and how often the branch advances.
MaxCalls == 2
MaxAdvance == 1

CallIds == 1..MaxCalls

Str_branches ==
    <<"h", "t", "t", "p", "s", ":", "/", "/", "a", "p", "i", ".", "g", "i", "t", "h", "u", "b",
      ".", "c", "o", "m", "/", "r", "e", "p", "o", "s", "/", "n", "i", "x", "o", "s", "/",
      "n", "i", "x", "p", "k", "g", "s", "/", "b", "r", "a", "n", "c", "h", "e", "s", "/">>
Str_nixos == <<"n", "i", "x", "o", "s", "-">>
Str_unstable == <<"u", "n", "s", "t", "a", "b", "l", "e">>

\* The branches the upstream repository has, and the channels callers ask for
\* (one of them names no branch).
Branches == {Str_nixos \o Str_unstable}
NetChannels == {Str_unstable, <<"o", "l", "d">>}
Tokens == OptOf({<<"k">>})

\* The commit a branch points to after it advanced i times.
ShaOf(i) == <<"c">> \o Display(i)

NoBody == [text |-> <<>>, json |-> FALSE, commit_sha |-> None]
NoResponse == [status |-> 0, body |-> NoBody]
NoOutcome == [state |-> "none"]
IdleCall == [pc |-> "idle", channel |-> <<>>, response |-> NoResponse, cause |-> "none",
             outcome |-> NoOutcome]

\* The errors a call returns: `?` hands on the error of the failed step, and the
\* non-success arm builds "GitHub returned {status:?} {text}".
BuildError == [state |-> "err", kind |-> "build", status |-> 0, text |-> <<>>]
TransportError == [state |-> "err", kind |-> "transport", status |-> 0, text |-> <<>>]
DecodeError == [state |-> "err", kind |-> "decode", status |-> 0, text |-> <<>>]

\* The non-success error without the body text.
status_error_no_text(response) ==
    [state |-> "err", kind |-> "status", status |-> response.status, text |-> <<>>]

status_error(response) ==
    [state |-> "err", kind |-> "status", status |-> response.status,
     text |-> response.body.text]

\* The request of lines 161-172: the branch URL, with the bearer token when the
\* environment holds one.
request(channel, token) ==
    [url |-> Str_branches \o Str_nixos \o channel, auth |-> token, answer |-> None]

\* StatusCode::is_success
is_success(status) == 200 <= status /\ status < 300

\* What the call returns once the body has been read, with the returned channel
\* carrying the branch prefix.
finish_branch_name(channel, response) ==
    IF ~is_success(response.status) THEN status_error(response)
    ELSE IF response.body.json /\ response.body.commit_sha # None
    THEN Ok([channel |-> Str_nixos \o channel, git_ref |-> response.body.commit_sha[1]])
    ELSE DecodeError

\* Lines 176-186: what the call returns once the body has been read.
finish(channel, response) ==
    IF ~is_success(response.status) THEN status_error(response)
    ELSE IF response.body.json /\ response.body.commit_sha # None
    THEN Ok([channel |-> channel, git_ref |-> response.body.commit_sha[1]])
    ELSE DecodeError

\* The endpoint: the branch a URL names, and its answer to a lookup.
BranchOf(url) == SubSeq(url, Len(Str_branches) + 1, Len(url))

Answer(url, kind) ==
    CASE kind = "lookup" /\ BranchOf(url) \in DOMAIN upstream ->
            [status |-> 200,
             body |-> [text |-> <<"{">> \o ShaOf(upstream[BranchOf(url)]) \o <<"}">>,
                       json |-> TRUE,
                       commit_sha |-> Some(ShaOf(upstream[BranchOf(url)]))]]
      [] kind = "lookup" /\ BranchOf(url) \notin DOMAIN upstream ->
            [status |-> 404,
             body |-> [text |-> <<"N", "F">>, json |-> TRUE, commit_sha |-> None]]
      [] kind = "limited" ->
            [status |-> 403,
             body |-> [text |-> <<"R", "L">>, json |-> TRUE, commit_sha |-> None]]
      [] kind = "broken" ->
            [status |-> 200,
             body |-> [text |-> <<"<", ">">>, json |-> FALSE, commit_sha |-> None]]

InitNet ==
    /\ upstream = [b \in Branches |-> 0]
    /\ calls = [c \in CallIds |-> IdleCall]
    /\ requests = [c \in CallIds |-> <<>>]
    /\ source = NoResult /\ result = NoResult
    /\ SerdeIdle /\ FileIdle

\* Calls are numbered in the order they are made.
NextToCall(c) == calls[c].pc = "idle" /\ \A d \in 1..(c - 1) : calls[d].pc # "idle"

\* Client::builder().build()? fails: the call returns before any request.
BuildFails(c, channel) ==
    /\ NextToCall(c)
    /\ calls' = [calls EXCEPT ![c] = [@ EXCEPT !.pc = "done", !.channel = channel,
                                                !.cause = "build", !.outcome = BuildError]]
    /\ UNCHANGED <<upstream, requests, locatorVars, serdeVars, fileVars>>

\* Lines 161-174 up to the await of send(): the request is handed to the transport.
Begin(c, channel, token) ==
    /\ NextToCall(c)
    /\ calls' = [calls EXCEPT ![c] = [@ EXCEPT !.pc = "sending", !.channel = channel]]
    /\ requests' = [requests EXCEPT ![c] = Append(@, request(channel, token))]
    /\ UNCHANGED <<upstream, locatorVars, serdeVars, fileVars>>

\* request.send().await? fails.
SendFails(c) ==
    /\ calls[c].pc = "sending"
    /\ calls' = [calls EXCEPT ![c] = [@ EXCEPT !.pc = "done", !.cause = "send",
                                                !.outcome = TransportError]]
    /\ UNCHANGED <<upstream, requests, locatorVars, serdeVars, fileVars>>

\* The endpoint answers the call's pending request; send() returns the response.
Respond(c, kind) ==
    /\ calls[c].pc = "sending"
    /\ LET n == Len(requests[c])
           r == Answer(requests[c][n].url, kind)
       IN  /\ calls' = [calls EXCEPT ![c] = [@ EXCEPT !.pc = "responded", !.response = r]]
           /\ requests' = [requests EXCEPT ![c][n].answer = r.body.commit_sha]
    /\ UNCHANGED <<upstream, locatorVars, serdeVars, fileVars>>

\* response.text().await? or response.json().await? fails reading the body.
BodyFails(c) ==
    /\ calls[c].pc = "responded"
    /\ calls' = [calls EXCEPT ![c] = [@ EXCEPT !.pc = "done", !.cause = "body",
                                                !.outcome = TransportError]]
    /\ UNCHANGED <<upstream, requests, locatorVars, serdeVars, fileVars>>

\* Finish on a non-success status sends the request again instead of returning.
Finish_retry(c) ==
    /\ calls[c].pc = "responded"
    /\ IF is_success(calls[c].response.status)
       THEN /\ calls' = [calls EXCEPT ![c] = [@ EXCEPT
                            !.pc = "done", !.outcome = finish(calls[c].channel, calls[c].response)]]
            /\ UNCHANGED requests
       ELSE /\ calls' = [calls EXCEPT ![c] = [@ EXCEPT !.pc = "sending",
                                                       !.response = NoResponse]]
            /\ requests' = [requests EXCEPT ![c] = Append(@, [@[1] EXCEPT !.answer = None])]
    /\ UNCHANGED <<upstream, locatorVars, serdeVars, fileVars>>

\* Finish returns the value an earlier call already resolved for the channel.
Finish_cached(c) ==
    /\ calls[c].pc = "responded"
    /\ LET hits == {d \in CallIds : /\ calls[d].pc = "done"
                                    /\ calls[d].outcome.state = "ok"
                                    /\ calls[d].channel = calls[c].channel}
       IN  calls' = [calls EXCEPT ![c] = [@ EXCEPT
                        !.pc = "done",
                        !.outcome = IF hits # {} /\ is_success(calls[c].response.status)
                                    THEN calls[CHOOSE d \in hits : TRUE].outcome
                                    ELSE finish(calls[c].channel, calls[c].response)]]
    /\ UNCHANGED <<upstream, requests, locatorVars, serdeVars, fileVars>>

\* Lines 176-186 after the body was read: the call returns.
Finish(c) ==
    /\ calls[c].pc = "responded"
    /\ calls' = [calls EXCEPT ![c] = [@ EXCEPT
                    !.pc = "done", !.outcome = finish(calls[c].channel, calls[c].response)]]
    /\ UNCHANGED <<upstream, requests, locatorVars, serdeVars, fileVars>>

\* The upstream branch moves to a new commit.
Advance(b) ==
    /\ upstream[b] < MaxAdvance
    /\ upstream' = [upstream EXCEPT ![b] = @ + 1]
    /\ UNCHANGED <<calls, requests, locatorVars, serdeVars, fileVars>>

NextNet ==
    \/ \E c \in CallIds, ch \in NetChannels : BuildFails(c, ch)
    \/ \E c \in CallIds, ch \in NetChannels, tok \in Tokens : Begin(c, ch, tok)
    \/ \E c \in CallIds : SendFails(c)
    \/ \E c \in CallIds, kind \in {"lookup", "limited", "broken"} : Respond(c, kind)
    \/ \E c \in CallIds : BodyFails(c)
    \/ \E c \in CallIds : Finish(c)
    \/ \E b \in Branches : Advance(b)

SpecNet == InitNet /\ [][NextNet]_vars

---------------------------------------------------------------------------
(* Claims about the channel resolver *)

Done(c) == calls[c].pc = "done"
Success(c) == calls[c].response.status \in 200..299
\* The call got a response and read its body.
BodyRead(c) == Done(c) /\ calls[c].cause = "none"

C5_State ==
    \A c \in CallIds :
        (BodyRead(c) /\ Success(c) /\ calls[c].response.body.json
         /\ calls[c].response.body.commit_sha # None) =>
            /\ requests[c][1].url = Str_branches \o Str_nixos \o calls[c].channel
            /\ calls[c].outcome =
                   Ok([channel |-> calls[c].channel,
                       git_ref |-> calls[c].response.body.commit_sha[1]])

C5_Fresh ==
    \A c \in CallIds :
        (~Done(c) /\ calls'[c].pc = "done") =>
            \A d \in CallIds \ {c} : calls'[d] = calls[d]

\* C5: a call whose lookup of nixos-{channel} got a success response with
\* commit.sha = s returns Nixpkgs { channel, git_ref: s }, the channel being the
\* argument without the branch prefix; returning builds a new value and changes
\* the value of no other call.
C5_Resolved == []C5_State /\ [][C5_Fresh]_vars

\* Every call made has resolved the channel, the first one to the branch's first
\* commit.
C5_Witness ==
    /\ \A c \in CallIds : Done(c) /\ calls[c].outcome.state = "ok"
    /\ calls[1].outcome.value.channel = Str_unstable
    /\ calls[1].outcome.value.git_ref = ShaOf(0)

Failed(c) == calls[c].cause = "send" \/ (calls[c].response # NoResponse /\ ~Success(c))

\* C6 as stated: every failure by the network or by a non-success status is
\* returned wrapped with the response's status code and body text.
C6_Original ==
    \A c \in CallIds :
        (Done(c) /\ Failed(c)) =>
            /\ calls[c].outcome.state = "err"
            /\ calls[c].outcome.kind = "status"
            /\ calls[c].outcome.status = calls[c].response.status
            /\ calls[c].outcome.text = calls[c].response.body.text

\* C6 amended: a non-success status whose body was read is returned as an error
\* carrying the status code and the body text; a failure of send() or of reading
\* the body is returned as the transport's own error, without status or text; no
\* Nixpkgs value is returned in any of these cases.
C6_Failures ==
    \A c \in CallIds :
        /\ (BodyRead(c) /\ ~Success(c)) =>
              calls[c].outcome = [state |-> "err", kind |-> "status",
                                  status |-> calls[c].response.status,
                                  text |-> calls[c].response.body.text]
        /\ (Done(c) /\ calls[c].cause \in {"send", "body"}) =>
              calls[c].outcome = TransportError
        /\ (Done(c) /\ (Failed(c) \/ calls[c].cause = "body")) =>
              calls[c].outcome.state = "err"

\* One call ended on the 404 of a channel without branch, another on a failed send.
C6_Witness ==
    /\ Done(1) /\ calls[1].cause = "none" /\ calls[1].response.status = 404
    /\ calls[1].outcome.state = "err" /\ calls[1].outcome.text = <<"N", "F">>
    /\ Done(MaxCalls) /\ calls[MaxCalls].cause = "send"

\* C9 as stated: every call sends exactly one request whatever its outcome, ends
\* with the error of the failed step, and has a result only after the response.
C9_Original ==
    \A c \in CallIds :
        /\ Len(requests[c]) <= 1
        /\ Done(c) => Len(requests[c]) = 1
        /\ (Done(c) /\ (Failed(c) \/ calls[c].cause # "none")) => calls[c].outcome.state = "err"
        /\ calls[c].outcome # NoOutcome => Done(c)
        /\ calls[c].outcome.state = "ok" => calls[c].response # NoResponse

\* C9 amended: a call sends at most one request: exactly one once its client is
\* built, none when building the client fails. After a send failure, a
\* non-success status or a malformed body no second request is sent, the call ends
\* with that error, and a value is returned only after the response was received.
C9_OneRequest ==
    \A c \in CallIds :
        /\ Len(requests[c]) <= 1
        /\ (calls[c].pc # "idle" /\ calls[c].cause # "build") => Len(requests[c]) = 1
        /\ calls[c].cause = "build" => (Done(c) /\ Len(requests[c]) = 0)
        /\ (Done(c) /\ (Failed(c) \/ calls[c].cause # "none")) => calls[c].outcome.state = "err"
        /\ (BodyRead(c) /\ Success(c) /\ ~calls[c].response.body.json) =>
              calls[c].outcome = DecodeError
        /\ calls[c].outcome # NoOutcome => Done(c)
        /\ calls[c].outcome.state = "ok" => calls[c].response # NoResponse

\* One call ended on a non-success status and another on a malformed body, each
\* having sent one request.
C9_Witness ==
    /\ Done(1) /\ calls[1].response.status = 403 /\ calls[1].outcome.state = "err"
    /\ Done(MaxCalls) /\ calls[MaxCalls].outcome = DecodeError
    /\ \A c \in CallIds : Len(requests[c]) = 1

C10_State ==
    \A c \in CallIds :
        calls[c].outcome.state = "ok" =>
            /\ Len(requests[c]) = 1
            /\ requests[c][1].answer = Some(calls[c].outcome.value.git_ref)

C10_Kept == \A c \in CallIds : Done(c) => calls'[c] = calls[c]

\* C10: the git_ref a successful call returns is the sha the endpoint answered to
\* that call's own request, whatever other calls returned and however the branch
\* moved; what a call returned is not changed by anything that happens later.
C10_PointInTime == []C10_State /\ [][C10_Kept]_vars

\* Two calls for the same channel returned different git_refs: the branch
\* advanced between their lookups.
C10_Witness ==
    /\ \A c \in CallIds : calls[c].outcome.state = "ok"
    /\ calls[1].channel = calls[MaxCalls].channel
    /\ calls[1].outcome.value.git_ref # calls[MaxCalls].outcome.value.git_ref

---------------------------------------------------------------------------
(* Claims about the locator functions *)

Str_github == <<"g", "i", "t", "h", "u", "b", ":">>
Str_gitlab == <<"g", "i", "t", "l", "a", "b", ":">>
Str_sourcehut == <<"s", "o", "u", "r", "c", "e", "h", "u", "t", ":">>
Str_tarball ==
    <<"h", "t", "t", "p", "s", ":", "/", "/", "a", "p", "i", ".", "g", "i", "t", "h", "u", "b",
      ".", "c", "o", "m", "/", "r", "e", "p", "o", "s", "/", "N", "i", "x", "O", "S", "/",
      "n", "i", "x", "p", "k", "g", "s", "/", "t", "a", "r", "b", "a", "l", "l", "/">>

\* The base locator of the table of section 4.2, for a variant that carries attributes.
TableBase(s) ==
    IF s.type = "Git" THEN s.url
    ELSE [Github |-> Str_github, Gitlab |-> Str_gitlab, SourceHut |-> Str_sourcehut][s.type]
         \o s.owner \o <<"/">> \o s.repo

\* C1: to_flake_ref returns the locator of the table: the variant's base with the
\* attributes appended by append_to, or the tarball URL of git_ref with nothing
\* appended for Nixpkgs; the result does not change with Github's description nor
\* with Nixpkgs's channel.
C1_LocatorTable ==
    result.op = "to_flake_ref" =>
        /\ HasAttrs(source) => result.value = append_to(source.attrs, TableBase(source))
        /\ source.type = "Nixpkgs" => result.value = Str_tarball \o source.git_ref
        /\ source.type = "Github" =>
              \A d \in Descriptions :
                  to_flake_ref([source EXCEPT !.description = d]) = result.value
        /\ source.type = "Nixpkgs" =>
              \A c \in Channels : to_flake_ref([source EXCEPT !.channel = c]) = result.value

\* A locator was built from a malformed owner with attributes present, and one from
\* a Nixpkgs value.
C1_Witness ==
    /\ result.op = "to_flake_ref"
    /\ source.type = "Gitlab"
    /\ source.owner = <<"a", "/", "?">>
    /\ source.attrs.rev # None
    /\ source.attrs.rev_count = Some(MaxNum)

\* The six fields in query order, each rendered as the text that follows its "key=".
KeyOrder ==
    <<<<"r", "e", "f">>, <<"r", "e", "v">>, <<"d", "i", "r">>,
      <<"n", "a", "r", "H", "a", "s", "h">>,
      <<"r", "e", "v", "C", "o", "u", "n", "t">>,
      <<"l", "a", "s", "t", "M", "o", "d", "i", "f", "i", "e", "d">>>>

Rendered(attrs) ==
    <<attrs.ref, attrs.rev, attrs.dir, attrs.nar_hash,
      IF attrs.rev_count = None THEN None ELSE Some(Display(attrs.rev_count[1])),
      IF attrs.last_modified = None THEN None ELSE Some(Display(attrs.last_modified[1]))>>

\* The pairs of the present fields from position i on, each preceded by its
\* separator: '?' before the first pair emitted, '&' before every later one.
RECURSIVE PairsFrom(_, _, _)
PairsFrom(vals, i, first) ==
    IF i > Len(KeyOrder) THEN <<>>
    ELSE IF vals[i] = None THEN PairsFrom(vals, i + 1, first)
    ELSE (IF first THEN <<"?">> ELSE <<"&">>) \o KeyOrder[i] \o <<"=">> \o vals[i][1]
         \o PairsFrom(vals, i + 1, FALSE)

\* C2: query_string emits one key=value pair per present field and none for an
\* absent one, in the order ref, rev, dir, narHash, revCount, lastModified, joined
\* with '&' after a single leading '?'; with no field present it is empty.
C2_QueryString ==
    result.op = "query_string" =>
        /\ result.value = PairsFrom(Rendered(result.attrs), 1, TRUE)
        /\ result.attrs = NoAttrs => result.value = <<>>

\* query_string ran on attributes with the first and the last field present and
\* some field between them absent.
C2_Witness ==
    /\ result.op = "query_string"
    /\ result.attrs.ref # None
    /\ result.attrs.dir = None
    /\ result.attrs.rev_count = Some(MaxNum)
    /\ result.attrs.last_modified # None

Count(s, c) == Cardinality({i \in 1..Len(s) : s[i] = c})

Present(attrs) == {i \in 1..Len(KeyOrder) : Rendered(attrs)[i] # None}

\* How often c occurs in the attribute values themselves.
RECURSIVE CountInValues(_, _, _)
CountInValues(vals, i, c) ==
    IF i > Len(vals) THEN 0
    ELSE (IF vals[i] = None THEN 0 ELSE Count(vals[i][1], c)) + CountInValues(vals, i + 1, c)

HasDouble(s, c) == \E i \in 1..(Len(s) - 1) : s[i] = c /\ s[i + 1] = c

\* C3 as stated: for every base and attribute set the result has no double '?'
\* and no stray or double '&'; a base without '?' gives at most one '?'; a base
\* with '?' gets no further '?'; no attribute gives base unchanged.
C3_Original ==
    result.op = "append_to" =>
        /\ result.attrs = NoAttrs => result.value = result.base
        /\ ~contains(result.base, "?") => Count(result.value, "?") <= 1
        /\ contains(result.base, "?") =>
              Count(result.value, "?") = Count(result.base, "?")
        /\ ~HasDouble(result.value, "?")
        /\ ~HasDouble(result.value, "&")
        /\ \A i \in 1..(Len(result.value) - 1) :
              ~(result.value[i] = "?" /\ result.value[i + 1] = "&")

\* C3 amended: append_to adds to base nothing when no attribute is present, and
\* otherwise exactly one separator ('?' when base has none, '&' when it has one)
\* followed by the pairs joined with '&'; every other '?' or '&' of the result is
\* one of base or of an attribute value, copied verbatim.
C3_AppendTo ==
    result.op = "append_to" =>
        LET b == result.base
            r == result.value
            vals == Rendered(result.attrs)
            n == Cardinality(Present(result.attrs))
        IN  /\ n = 0 => r = b
            /\ n > 0 =>
                  /\ Len(r) > Len(b)
                  /\ SubSeq(r, 1, Len(b)) = b
                  /\ r[Len(b) + 1] = (IF contains(b, "?") THEN "&" ELSE "?")
                  /\ Count(r, "?") = Count(b, "?") + CountInValues(vals, 1, "?")
                                     + (IF contains(b, "?") THEN 0 ELSE 1)
                  /\ Count(r, "&") = Count(b, "&") + CountInValues(vals, 1, "&")
                                     + (n - 1) + (IF contains(b, "?") THEN 1 ELSE 0)

\* append_to ran on a base that already carries a query, with two attributes.
C3_Witness ==
    /\ result.op = "append_to"
    /\ contains(result.base, "?")
    /\ result.attrs.rev # None
    /\ result.attrs.nar_hash # None
    /\ Len(result.value) > Len(result.base)

====
